---- MODULE Spec2Model ----
(***************************************************************************)
(* The posting orchestration engine of backend/automation/base.py:         *)
(* AutomationManager.post_to_platform / post_to_multiple_platforms and the *)
(* session and failure state of PlatformAutomationBase.                    *)
(*                                                                         *)
(* A caller (an HTTP request handler) runs one coroutine.  Every action is *)
(* the code that runs between two suspension points of that coroutine.     *)
(* What an adapter or the browser does (return, raise) is an input chosen  *)
(* with \E.                                                                *)
(***************************************************************************)
EXTENDS Integers, Sequences, FiniteSets, TLC

\* ------------------------------------------------------------------ bounds
MaxTime == 2
MaxAttempts == 2
MaxFaults == 1
TicksPerSecond == 2
MaxRetryAfter == 1
MaxImages == 3
MaxTextLen == 2
MaxOptions == 2
MaxQueryTime == 1
MaxShared == 2
MaxErrors == 2
MaxErrorTextLen == 1
MaxPolls == 130

\* -------------------------------------------------------- program constants
DefaultRetryAfter == 300

\* facebook.py: the least upload timeout and the default one; craigslist.py:
\* `timeout: int = 60`
min_upload_timeout == 60
default_upload_timeout == 120
craigslist_upload_timeout == 60

\* Two request handlers can hold a reference to the one global
\* automation_manager.  In Spec the requests are served one after another,
\* all by the first handler.
Callers == {"a", "b"}
Serving == {"a"}

\* Optional[T]: None is the empty tuple, a value v is <<v>>.
None == <<>>
Some(v) == <<v>>
Option(S) == {None} \cup {Some(v) : v \in S}

\* automation/__init__.py registers four adapters; two of them are modelled,
\* and one name that is not in the registry.
Registered == {"facebook", "craigslist"}
Names == Registered \cup {"unlisted"}

PostStatus == {"success", "failed", "rate_limited", "account_blocked",
               "captcha_required", "login_required"}

PostResult(s, m, e, r) ==
    [status |-> s, message |-> m, error_code |-> e, retry_after |-> r]

NoResult == PostResult("", "", None, None)

\* timedelta(seconds = r) on the clock of the model
Seconds(r) == r * TicksPerSecond

\* ----------------------------------------------------------------- state
VARIABLES
    now,                    \* datetime.now(), in ticks
    consecutive_failures,   \* per adapter
    last_success_time,      \* per adapter, Optional
    blocked_until,          \* per adapter, Optional
    playwright,             \* per adapter: handle the attribute refers to
    browser,
    context,
    page,
    live,                   \* browser-side objects that are open
    mode,                   \* per caller: "idle", "single", "multi"
    platforms,              \* per caller: the `platforms` argument
    credentials_map,        \* per caller: the keys of `credentials_map`
    tasks,                  \* per caller: platform names of the created tasks
    idx,                    \* per caller: index of the task being awaited
    results,                \* per caller: the map built by the multi call
    attempted,              \* per caller: what each awaited task's adapter did
    pc,                     \* per caller: position inside post_to_platform
    plat,                   \* per caller: platform_name of the attempt
    pend,                   \* per caller: what leaves the `async with` block
    ret,                    \* per caller: how post_to_platform ended
    entry,                  \* per caller: adapter state when the attempt began
    calls,                  \* per caller: adapter primitives invoked, in order
    attempts,               \* post_to_platform calls made so far
    faults,                 \* browser operations that have raised so far
    throttler,              \* per adapter: tokens taken from self.throttler
    upload,                 \* the _upload_images call in progress
    area,                   \* the _handle_location_selection call in progress
    flow,                   \* the adapter's validate_credentials / post_ad
    poll,                    \* the upload-completion poll in progress
    tmpdir,                  \* the temp directory and the attempts using it
    submit,                 \* the _handle_preview_and_submit call
    ebay,                   \* two runs of the eBay adapter, side by side
    route                   \* the single-platform HTTP handler in progress

adapterVars == <<consecutive_failures, last_success_time, blocked_until>>
sessionVars == <<playwright, browser, context, page, live>>
multiVars == <<mode, platforms, credentials_map, tasks, idx, results,
               attempted>>
attemptVars == <<pc, plat, pend, ret, entry, calls>>
managerVars == <<now, adapterVars, sessionVars, multiVars, attemptVars,
                 attempts, faults>>
internalVars == <<throttler, upload, area, flow, poll, tmpdir, submit, ebay,
                  route>>
vars == <<now, adapterVars, sessionVars, multiVars, attemptVars, attempts,
         faults, internalVars>>

\* A handle names the attempt (caller) that created the object.
Kinds == {"playwright", "browser", "context", "page"}

NoPend == [kind |-> "none", result |-> NoResult, exc |-> ""]
NoRet == [kind |-> "pending", result |-> NoResult, exc |-> ""]
NoEntry == [cf |-> 0, bu |-> None]

\* no call of the adapter's internals is in progress
NoUpload == [pc |-> "idle"]
NoArea == [pc |-> "idle"]
NoFlow == [pc |-> "idle"]
NoPoll == [pc |-> "idle"]
NoSubmit == [pc |-> "idle"]
NoRoute == [pc |-> "idle"]

\* the temp directory is empty and no attempt is uploading images; `foreign`
\* records what an attempt did to a file another attempt wrote
NoTmpdir ==
    [files |-> [f \in {<<a, i>> : a \in {"facebook", "craigslist"},
                                  i \in 1..MaxShared} |-> None],
     att |-> [t \in {"x", "y"} |->
                 [pc |-> "idle", adapter |-> "facebook", n |-> 0, i |-> 0,
                  temp_files |-> <<>>]],
     foreign |-> {}]

\* EbayAutomation.__init__: the four API credentials are None; no attempt
\* has been made in either run
NoEbay ==
    [pc |-> "idle", phase |-> "earlier",
     keys |-> [r \in {1, 2} |->
                  [app_id |-> "none", dev_id |-> "none", cert_id |-> "none",
                   user_token |-> "none"]],
     supplied |-> <<>>, ok |-> <<>>, sent |-> <<>>]

Init ==
    /\ now = 0
    /\ consecutive_failures = [p \in Registered |-> 0]
    /\ last_success_time = [p \in Registered |-> None]
    /\ blocked_until = [p \in Registered |-> None]
    /\ playwright = [p \in Registered |-> None]
    /\ browser = [p \in Registered |-> None]
    /\ context = [p \in Registered |-> None]
    /\ page = [p \in Registered |-> None]
    /\ live = {}
    /\ mode = [c \in Callers |-> "idle"]
    /\ platforms = [c \in Callers |-> <<>>]
    /\ credentials_map = [c \in Callers |-> {}]
    /\ tasks = [c \in Callers |-> <<>>]
    /\ idx = [c \in Callers |-> 0]
    /\ results = [c \in Callers |-> <<>>]
    /\ attempted = [c \in Callers |-> <<>>]
    /\ pc = [c \in Callers |-> "idle"]
    /\ plat = [c \in Callers |-> "unlisted"]
    /\ pend = [c \in Callers |-> NoPend]
    /\ ret = [c \in Callers |-> NoRet]
    /\ entry = [c \in Callers |-> NoEntry]
    /\ calls = [c \in Callers |-> <<>>]
    /\ attempts = 0
    /\ faults = 0
    /\ throttler = [p \in Registered |-> 0]
    /\ upload = NoUpload
    /\ area = NoArea
    /\ flow = NoFlow
    /\ poll = NoPoll
    /\ tmpdir = NoTmpdir
    /\ submit = NoSubmit
    /\ ebay = NoEbay
    /\ route = NoRoute

\* ----------------------------------------------- PlatformAutomationBase

NeverRateLimited(p) == FALSE

BlockedForever(p) == blocked_until[p] # None

is_rate_limited(p) ==
    /\ blocked_until[p] # None
    /\ now < blocked_until[p][1]

\* mark_rate_limited(retry_after): the new blocked_until
mark_rate_limited_until(retry_after) == Some(now + Seconds(retry_after))

RateLimitedResets(p) == 0

RateLimitedNotCounted(p) == consecutive_failures[p]

\* mark_rate_limited(retry_after): the new consecutive_failures
mark_rate_limited_failures(p) == consecutive_failures[p] + 1

SuccessKeepsBlock == Some(now)

\* mark_success: the new blocked_until
mark_success_until == None

\* mark_success: the new consecutive_failures
mark_success_failures == 0

\* `result.retry_after or 300`: None and 0 are both falsy
RetryAfterOrDefault(r) ==
    IF r = None \/ r = Some(0) THEN DefaultRetryAfter ELSE r[1]

\* int((blocked_until - now).total_seconds()) if blocked_until else 0
FastPathRetryAfter(p) ==
    IF blocked_until[p] # None
    THEN (blocked_until[p][1] - now) \div TicksPerSecond
    ELSE 0

\* initialize_browser: the awaits in order; an outcome names the one that
\* raises, "ok" when none does.
InitOutcomes == {"ok", "start", "launch", "new_context", "new_page",
                 "add_init_script"}

\* the attributes initialize_browser has assigned when it stops at outcome o
Created(o) ==
    CASE o = "start" -> {}
      [] o = "launch" -> {"playwright"}
      [] o = "new_context" -> {"playwright", "browser"}
      [] o = "new_page" -> {"playwright", "browser", "context"}
      [] OTHER -> Kinds

\* cleanup: page, context, browser, playwright are closed in this order; an
\* outcome names the close that raises, "ok" when none does.
CleanupOutcomes == {"ok", "page", "context", "browser", "playwright"}

\* the attributes cleanup has closed when it stops at outcome k
Closed(k) ==
    CASE k = "page" -> {}
      [] k = "context" -> {"page"}
      [] k = "browser" -> {"page", "context"}
      [] k = "playwright" -> {"page", "context", "browser"}
      [] OTHER -> Kinds

\* the attribute of adapter p that holds objects of kind k
Attr(k, p) ==
    CASE k = "playwright" -> playwright[p]
      [] k = "browser" -> browser[p]
      [] k = "context" -> context[p]
      [] OTHER -> page[p]

\* ---------------------------------------------------- AutomationManager

ExceptReraise(exc) ==
    [kind |-> "raised", result |-> NoResult, exc |-> exc]

ExceptWithoutCode(exc) ==
    [kind |-> "returned",
     result |-> PostResult("failed", exc, None, None),
     exc |-> ""]

\* the `except Exception as e` block of post_to_platform
ExceptResult(exc) ==
    [kind |-> "returned",
     result |-> PostResult("failed", exc, Some("AUTOMATION_ERROR"), None),
     exc |-> ""]

Returned(r) == [kind |-> "returned", result |-> r, exc |-> ""]

CountFailureEverywhere(p) ==
    [q \in Registered |-> consecutive_failures[q] + 1]

\* the except block of post_to_platform: `platform.consecutive_failures += 1`
\* on the adapter the registry returned for platform_name
CountFailure(p) == [consecutive_failures EXCEPT ![p] = @ + 1]

UnsupportedAsSuccess ==
    Returned(PostResult("success", "Platform not supported", None, None))

\* `if not platform: return PostResult(status=PostStatus.FAILED, ...)`
NotSupported ==
    Returned(PostResult("failed", "Platform not supported", None, None))

\* post_to_platform from its first line to its first suspension point:
\* the registry lookup, the rate-limit check and the entry into `async with`.
Enter(c, name) ==
    /\ attempts < MaxAttempts
    /\ attempts' = attempts + 1
    /\ plat' = [plat EXCEPT ![c] = name]
    /\ pend' = [pend EXCEPT ![c] = NoPend]
    /\ calls' = [calls EXCEPT ![c] = <<>>]
    /\ IF name \notin Registered
       THEN /\ entry' = [entry EXCEPT ![c] = NoEntry]
            /\ ret' = [ret EXCEPT ![c] = NotSupported]
            /\ pc' = [pc EXCEPT ![c] = "done"]
       ELSE /\ entry' = [entry EXCEPT ![c] =
                            [cf |-> consecutive_failures[name],
                             bu |-> blocked_until[name]]]
            /\ IF is_rate_limited(name)
               THEN /\ ret' = [ret EXCEPT ![c] = Returned(PostResult(
                                "rate_limited", "Platform is rate limited",
                                None, Some(FastPathRetryAfter(name))))]
                    /\ pc' = [pc EXCEPT ![c] = "done"]
               ELSE /\ ret' = [ret EXCEPT ![c] = NoRet]
                    /\ pc' = [pc EXCEPT ![c] = "init"]
    /\ UNCHANGED internalVars
    /\ UNCHANGED <<now, adapterVars, sessionVars, faults>>

\* a caller (routes/ads.py post_ad) calls post_to_platform
CallPostToPlatform(c, name) ==
    /\ mode[c] = "idle"
    /\ mode' = [mode EXCEPT ![c] = "single"]
    /\ UNCHANGED <<platforms, credentials_map, tasks, idx, results,
                   attempted>>
    /\ Enter(c, name)

\* __aenter__: initialize_browser runs to its end or to the await that raises.
\* When it raises, __aexit__ is not run and the except block handles it.
InitializeBrowser(c, o) ==
    LET p == plat[c]
        made == Created(o)
        set(attr, k) == IF k \in made THEN [attr EXCEPT ![p] = Some(c)]
                        ELSE attr
    IN  /\ pc[c] = "init"
        /\ o \in InitOutcomes
        /\ faults' = IF o = "ok" THEN faults ELSE faults + 1
        /\ faults' <= MaxFaults
        /\ playwright' = set(playwright, "playwright")
        /\ browser' = set(browser, "browser")
        /\ context' = set(context, "context")
        /\ page' = set(page, "page")
        /\ live' = live \cup {<<k, p, c>> : k \in made}
        /\ calls' = [calls EXCEPT ![c] = Append(@, "initialize_browser")]
        /\ IF o = "ok"
           THEN /\ pc' = [pc EXCEPT ![c] = "validate"]
                /\ UNCHANGED <<ret, pend, consecutive_failures>>
           ELSE /\ consecutive_failures' = CountFailure(p)
                /\ pend' = [pend EXCEPT ![c] =
                      [kind |-> "raise", result |-> NoResult,
                       exc |-> "initialize_browser"]]
                /\ ret' = [ret EXCEPT ![c] = ExceptResult("initialize_browser")]
                /\ pc' = [pc EXCEPT ![c] = "done"]
        /\ UNCHANGED internalVars
        /\ UNCHANGED <<now, last_success_time, blocked_until, multiVars,
                       plat, entry, attempts>>

\* await platform.validate_credentials(credentials)
ValidateOutcomes == {"true", "false", "raise"}

ValidateCredentials(c, o) ==
    /\ pc[c] = "validate"
    /\ o \in ValidateOutcomes
    /\ calls' = [calls EXCEPT ![c] = Append(@, "validate_credentials")]
    /\ CASE o = "true" ->
              /\ pc' = [pc EXCEPT ![c] = "post"]
              /\ UNCHANGED pend
         [] o = "false" ->
              /\ pc' = [pc EXCEPT ![c] = "cleanup"]
              /\ pend' = [pend EXCEPT ![c] =
                    [kind |-> "return",
                     result |-> PostResult("login_required",
                                    "Invalid credentials", None, None),
                     exc |-> ""]]
         [] OTHER ->
              /\ pc' = [pc EXCEPT ![c] = "cleanup"]
              /\ pend' = [pend EXCEPT ![c] =
                    [kind |-> "raise", result |-> NoResult,
                     exc |-> "validate_credentials"]]
    /\ UNCHANGED internalVars
    /\ UNCHANGED <<now, adapterVars, sessionVars, multiVars, plat, ret, entry,
                   attempts, faults>>

\* what `await platform.post_ad(...)` can do: raise, return something that is
\* not a PostResult, or return a PostResult
RetryAfters == {None} \cup {Some(r) : r \in 0..MaxRetryAfter}

AdapterResults ==
    {PostResult(s, "adapter", None, None) : s \in PostStatus}
    \cup {PostResult("rate_limited", "adapter", None, r) : r \in RetryAfters}

PostAdOutcomes ==
    {[kind |-> k, result |-> NoResult] : k \in {"raise", "not_a_result"}}
    \cup {[kind |-> "result", result |-> r] : r \in AdapterResults}

\* result = await platform.post_ad(...); mark_success / mark_rate_limited;
\* `return result` then enters __aexit__
PostAd(c, o) ==
    LET p == plat[c] IN
    /\ pc[c] = "post"
    /\ o \in PostAdOutcomes
    /\ calls' = [calls EXCEPT ![c] = Append(@, "post_ad")]
    /\ pc' = [pc EXCEPT ![c] = "cleanup"]
    /\ IF o.kind = "result"
       THEN /\ pend' = [pend EXCEPT ![c] =
                    [kind |-> "return", result |-> o.result, exc |-> ""]]
            /\ CASE o.result.status = "success" ->
                      /\ consecutive_failures' = [consecutive_failures
                            EXCEPT ![p] = mark_success_failures]
                      /\ last_success_time' = [last_success_time
                            EXCEPT ![p] = Some(now)]
                      /\ blocked_until' = [blocked_until
                            EXCEPT ![p] = mark_success_until]
                 [] o.result.status = "rate_limited" ->
                      /\ blocked_until' = [blocked_until EXCEPT ![p] =
                            mark_rate_limited_until(
                                RetryAfterOrDefault(o.result.retry_after))]
                      /\ consecutive_failures' = [consecutive_failures
                            EXCEPT ![p] = mark_rate_limited_failures(p)]
                      /\ UNCHANGED last_success_time
                 [] OTHER -> UNCHANGED adapterVars
       ELSE /\ pend' = [pend EXCEPT ![c] =
                    [kind |-> "raise", result |-> NoResult,
                     exc |-> IF o.kind = "raise" THEN "post_ad"
                             ELSE "no attribute status"]]
            /\ UNCHANGED adapterVars
    /\ UNCHANGED internalVars
    /\ UNCHANGED <<now, sessionVars, multiVars, plat, ret, entry, attempts,
                   faults>>

\* __aexit__: cleanup closes what the adapter's attributes refer to and
\* swallows its own exception; then the pending return value is returned, or
\* the pending exception reaches the except block.
Cleanup(c, k) ==
    LET p == plat[c]
        closed == {<<x, p, Attr(x, p)[1]>> :
                      x \in {y \in Closed(k) : Attr(y, p) # None}}
    IN  /\ pc[c] = "cleanup"
        /\ k \in CleanupOutcomes
        /\ k # "ok" => Attr(k, p) # None
        /\ faults' = IF k = "ok" THEN faults ELSE faults + 1
        /\ faults' <= MaxFaults
        /\ live' = live \ closed
        /\ calls' = [calls EXCEPT ![c] = Append(@, "cleanup")]
        /\ pc' = [pc EXCEPT ![c] = "done"]
        /\ IF pend[c].kind = "raise"
           THEN /\ consecutive_failures' = CountFailure(p)
                /\ ret' = [ret EXCEPT ![c] = ExceptResult(pend[c].exc)]
           ELSE /\ ret' = [ret EXCEPT ![c] = Returned(pend[c].result)]
                /\ UNCHANGED consecutive_failures
        /\ UNCHANGED internalVars
        /\ UNCHANGED <<now, last_success_time, blocked_until, playwright,
                       browser, context, page, multiVars, plat, pend, entry,
                       attempts>>

\* the caller of post_to_platform takes the result
ReturnSingle(c) ==
    /\ mode[c] = "single"
    /\ pc[c] = "done"
    /\ mode' = [mode EXCEPT ![c] = "idle"]
    /\ pc' = [pc EXCEPT ![c] = "idle"]
    /\ plat' = [plat EXCEPT ![c] = "unlisted"]
    /\ pend' = [pend EXCEPT ![c] = NoPend]
    /\ ret' = [ret EXCEPT ![c] = NoRet]
    /\ entry' = [entry EXCEPT ![c] = NoEntry]
    /\ calls' = [calls EXCEPT ![c] = <<>>]
    /\ UNCHANGED internalVars
    /\ UNCHANGED <<now, adapterVars, sessionVars, platforms, credentials_map,
                   tasks, idx, results, attempted, attempts, faults>>

\* ----------------------------------------- post_to_multiple_platforms

\* the lists a caller passes as `platforms`: routes/ads.py passes the keys of
\* a dict, so no name occurs twice; the names are those of registered adapters
PlatformLists ==
    {l \in UNION {[1..n -> Registered] : n \in 0..Cardinality(Registered)} :
        \A i, j \in DOMAIN l : l[i] = l[j] => i = j}

\* the key sets a caller can pass as `credentials_map`: at most one adapter
\* has no credentials
CredentialSets == {Registered} \cup {Registered \ {n} : n \in Registered}

SelectTasksUnfiltered(list, creds) == list

\* the first loop: one task per requested name that is a key of
\* credentials_map, in the order of the list
SelectTasks(list, creds) ==
    SelectSeq(list, LAMBDA n : n \in creds)

\* the except block around `await task`
CollectResult(rt) ==
    IF rt.kind = "raised"
    THEN PostResult("failed", rt.exc, None, None)
    ELSE rt.result

StoreFailureAlone(res, name, r) ==
    IF r.status = "failed"
    THEN [n \in {name} |-> r]
    ELSE [n \in DOMAIN res \cup {name} |-> IF n = name THEN r ELSE res[n]]

\* results[platform_name] = ...
Store(res, name, r) ==
    [n \in DOMAIN res \cup {name} |-> IF n = name THEN r ELSE res[n]]

\* what the adapter did in the attempt of caller c that has just ended:
\* "raise", the status post_ad returned, or "none" when it was not reached
Behaviour(c) ==
    CASE pend[c].kind = "raise" -> "raise"
      [] pend[c].kind = "return" -> pend[c].result.status
      [] OTHER -> "none"

\* a caller (routes/ads.py post_ad_multiple_platforms) calls
\* post_to_multiple_platforms; the coroutines are created, none is started
CallPostToMultiplePlatforms(c, list, creds) ==
    /\ mode[c] = "idle"
    /\ attempts + Len(SelectTasks(list, creds)) <= MaxAttempts
    /\ mode' = [mode EXCEPT ![c] = "multi"]
    /\ platforms' = [platforms EXCEPT ![c] = list]
    /\ credentials_map' = [credentials_map EXCEPT ![c] = creds]
    /\ tasks' = [tasks EXCEPT ![c] = SelectTasks(list, creds)]
    /\ idx' = [idx EXCEPT ![c] = 1]
    /\ results' = [results EXCEPT ![c] = <<>>]
    /\ attempted' = [attempted EXCEPT ![c] = <<>>]
    /\ pc' = [pc EXCEPT ![c] =
            IF SelectTasks(list, creds) = <<>> THEN "mdone" ELSE "ready"]
    /\ UNCHANGED internalVars
    /\ UNCHANGED <<now, adapterVars, sessionVars, plat, pend, ret, entry,
                   calls, attempts, faults>>

\* `await task` starts the coroutine of the task at idx.  The second loop
\* reads `tasks` only: the arguments `platforms` and `credentials_map` are
\* dead once it has begun and are no longer kept.
AwaitTask(c) ==
    /\ mode[c] = "multi"
    /\ pc[c] = "ready"
    /\ platforms' = [platforms EXCEPT ![c] = <<>>]
    /\ credentials_map' = [credentials_map EXCEPT ![c] = {}]
    /\ UNCHANGED <<mode, tasks, idx, results, attempted>>
    /\ Enter(c, tasks[c][idx[c]])

\* the awaited task has ended: its result is stored and the loop goes on
MultiCollect(c) ==
    /\ mode[c] = "multi"
    /\ pc[c] = "done"
    /\ results' = [results EXCEPT ![c] =
            Store(@, plat[c], CollectResult(ret[c]))]
    /\ attempted' = [attempted EXCEPT ![c] =
            [n \in DOMAIN @ \cup {plat[c]} |->
                IF n = plat[c] THEN Behaviour(c) ELSE @[n]]]
    /\ idx' = [idx EXCEPT ![c] = @ + 1]
    /\ pc' = [pc EXCEPT ![c] =
            IF idx[c] < Len(tasks[c]) THEN "ready" ELSE "mdone"]
    /\ pend' = [pend EXCEPT ![c] = NoPend]
    /\ ret' = [ret EXCEPT ![c] = NoRet]
    /\ entry' = [entry EXCEPT ![c] = NoEntry]
    /\ calls' = [calls EXCEPT ![c] = <<>>]
    /\ UNCHANGED internalVars
    /\ UNCHANGED <<now, adapterVars, sessionVars, mode, platforms,
                   credentials_map, tasks, plat, attempts, faults>>

\* the caller of post_to_multiple_platforms takes the map
ReturnMulti(c) ==
    /\ mode[c] = "multi"
    /\ pc[c] = "mdone"
    /\ mode' = [mode EXCEPT ![c] = "idle"]
    /\ pc' = [pc EXCEPT ![c] = "idle"]
    /\ platforms' = [platforms EXCEPT ![c] = <<>>]
    /\ credentials_map' = [credentials_map EXCEPT ![c] = {}]
    /\ tasks' = [tasks EXCEPT ![c] = <<>>]
    /\ idx' = [idx EXCEPT ![c] = 0]
    /\ results' = [results EXCEPT ![c] = <<>>]
    /\ attempted' = [attempted EXCEPT ![c] = <<>>]
    /\ plat' = [plat EXCEPT ![c] = "unlisted"]
    /\ UNCHANGED internalVars
    /\ UNCHANGED <<now, adapterVars, sessionVars, pend, ret, entry, calls,
                   attempts, faults>>

\* the clock.  It is read at the entry of post_to_platform and by mark_*;
\* time that passes during the other awaits is counted at the next read.
Tick ==
    /\ now < MaxTime
    /\ \A c \in Serving : pc[c] \in {"idle", "ready", "post", "cleanup"}
    /\ now' = now + 1
    /\ UNCHANGED internalVars
    /\ UNCHANGED <<adapterVars, sessionVars, multiVars, attemptVars, attempts,
         faults>>

Next ==
    \/ \E c \in Serving, name \in Names : CallPostToPlatform(c, name)
    \/ \E c \in Serving, o \in InitOutcomes : InitializeBrowser(c, o)
    \/ \E c \in Serving, o \in ValidateOutcomes : ValidateCredentials(c, o)
    \/ \E c \in Serving, o \in PostAdOutcomes : PostAd(c, o)
    \/ \E c \in Serving, k \in CleanupOutcomes : Cleanup(c, k)
    \/ \E c \in Serving : ReturnSingle(c)
    \/ \E c \in Serving, list \in PlatformLists, creds \in CredentialSets :
            CallPostToMultiplePlatforms(c, list, creds)
    \/ \E c \in Serving : AwaitTask(c)
    \/ \E c \in Serving : MultiCollect(c)
    \/ \E c \in Serving : ReturnMulti(c)
    \/ Tick

Spec == Init /\ [][Next]_vars

\* Two request handlers run on one event loop and both call post_to_platform
\* on the global automation_manager: their coroutines interleave at every
\* await.
NextOverlap ==
    \/ \E c \in Callers, name \in Names : CallPostToPlatform(c, name)
    \/ \E c \in Callers, o \in InitOutcomes : InitializeBrowser(c, o)
    \/ \E c \in Callers, o \in ValidateOutcomes : ValidateCredentials(c, o)
    \/ \E c \in Callers, o \in PostAdOutcomes : PostAd(c, o)
    \/ \E c \in Callers, k \in CleanupOutcomes : Cleanup(c, k)
    \/ \E c \in Callers : ReturnSingle(c)

SpecOverlap == Init /\ [][NextOverlap]_vars

\* The two handlers' calls are for different platforms whenever they
\* overlap: a call for a registered platform begins while no call of the
\* other handler for the same platform is in progress.
NextInterleaved ==
    \/ \E c \in Callers, name \in Registered :
          /\ \A d \in Callers \ {c} : mode[d] = "idle" \/ plat[d] # name
          /\ CallPostToPlatform(c, name)
    \/ \E c \in Callers, o \in InitOutcomes : InitializeBrowser(c, o)
    \/ \E c \in Callers, o \in ValidateOutcomes : ValidateCredentials(c, o)
    \/ \E c \in Callers, o \in PostAdOutcomes : PostAd(c, o)
    \/ \E c \in Callers, k \in CleanupOutcomes : Cleanup(c, k)
    \/ \E c \in Callers : ReturnSingle(c)

SpecInterleaved == Init /\ [][NextInterleaved]_vars

\* ==================================================================
\* Image transfer: _upload_images of the Facebook and Craigslist adapters
\* (facebook.py, craigslist.py).  OfferUp's _upload_images transfers nothing.
\* ==================================================================

\* `max_retries: int = 3` of _download_images / _download_images_for_upload
max_retries == 3

ImageAdapters == {"facebook", "craigslist"}

\* The temp file of the image at position i is named by i (fb_upload_{i},
\* craigslist_upload_{i}); positions are counted from 1 here.  A file on disk
\* is "absent", "empty" (size 0), "partial" or "data" (the whole image).
FileStates == {"absent", "empty", "partial", "data"}

\* what one download attempt can do: succeed, fail before the file is opened
\* (request or HTTP status), fail while writing, or receive an empty body
DownloadOutcomes == {"ok", "http", "write", "empty"}

\* the attempt ends without an exception
AttemptSucceeds(a, o) ==
    IF a = "facebook" THEN o \in {"ok", "empty"} ELSE o = "ok"

\* the temp file after the attempt, its except block included: Craigslist
\* unlinks what a failed attempt left, Facebook leaves it
FileAfterAttempt(a, o, before) ==
    IF a = "facebook"
    THEN CASE o = "ok" -> "data"
           [] o = "empty" -> "empty"
           [] o = "write" -> "partial"
           [] OTHER -> before
    ELSE IF o = "ok" THEN "data" ELSE "absent"

\* the tracking list after the last attempt for image i has failed:
\* Craigslist removes the path, Facebook keeps it
AfterLastFailure(a, list, i) ==
    IF a = "facebook" THEN list ELSE SelectSeq(list, LAMBDA f : f # i)

\* what the download function returns: Facebook the tracking list, Craigslist
\* the paths in it that exist with size > 0
DownloadReturns(a, list, disk) ==
    IF a = "facebook" THEN list
    ELSE SelectSeq(list, LAMBDA f : disk[f] \in {"partial", "data"})

CleanupKeepsFirst(tracked, disk) ==
    [f \in DOMAIN disk |->
        IF f \in {tracked[j] : j \in 2..Len(tracked)} THEN "absent"
        ELSE disk[f]]

\* _cleanup_temp_files: every path of the list that exists is unlinked
cleanup_temp_files(tracked, disk) ==
    [f \in DOMAIN disk |->
        IF f \in {tracked[j] : j \in DOMAIN tracked} THEN "absent"
        ELSE disk[f]]

\* _upload_images(image_urls) is called with n URLs
CallUploadImages(a, n) ==
    /\ upload.pc = "idle"
    /\ upload' =
         [pc |-> IF n = 0 THEN "returned"
                 ELSE IF a = "facebook" THEN "download" ELSE "visible",
          adapter |-> a, n |-> n, i |-> 1, attempt |-> 0,
          list |-> IF n > 0 /\ a = "facebook" THEN <<1>> ELSE <<>>,
          temp_files |-> <<>>,
          disk |-> [f \in 1..n |-> "absent"],
          succeeded |-> {}, created |-> {},
          tried |-> [f \in 1..n |-> 0], slept |-> [f \in 1..n |-> <<>>],
          handed |-> None, poll |-> "none",
          ret |-> IF n = 0 THEN "true" ELSE "none"]
    /\ UNCHANGED <<managerVars, throttler, area, flow, poll, tmpdir, submit,
                   ebay, route>>

\* Craigslist: `if await loc.is_visible()` on the file input, before any
\* download
FileInputOutcomes == {"visible", "hidden", "raise"}

FileInputVisible(o) ==
    /\ upload.pc = "visible"
    /\ o \in FileInputOutcomes
    /\ upload' = IF o = "visible"
                 THEN [upload EXCEPT !.pc = "download", !.list = <<1>>]
                 ELSE [upload EXCEPT !.pc = "finally", !.ret = "false"]
    /\ UNCHANGED <<managerVars, throttler, area, flow, poll, tmpdir, submit,
                   ebay, route>>

ConstantWait(attempt) == 1

\* `wait_time = 2**attempt`, the argument of asyncio.sleep between attempts
wait_time(attempt) == 2 ^ attempt

\* one pass of `for attempt in range(max_retries)` for the image at
\* position i, its except block included (the sleep that precedes the next
\* attempt is recorded in `slept`), up to the next attempt, the next image or
\* the return of the download function
DownloadAttempt(o) ==
    LET a == upload.adapter
        i == upload.i
        ok == AttemptSucceeds(a, o)
        last == upload.attempt = max_retries - 1
        disk == [upload.disk EXCEPT
                    ![i] = FileAfterAttempt(a, o, upload.disk[i])]
        list == IF ~ok /\ last THEN AfterLastFailure(a, upload.list, i)
                ELSE upload.list
        u == [upload EXCEPT
                 !.disk = disk,
                 !.created = IF o = "http" THEN @ ELSE @ \cup {i},
                 !.succeeded = IF ok THEN @ \cup {i} ELSE @,
                 !.tried = [@ EXCEPT ![i] = @ + 1],
                 !.slept = IF ~ok /\ ~last
                           THEN [@ EXCEPT ![i] =
                                    Append(@, wait_time(upload.attempt))]
                           ELSE @]
    IN  /\ upload.pc = "download"
        /\ o \in DownloadOutcomes
        /\ upload' =
             IF ~ok /\ ~last
             THEN [u EXCEPT !.attempt = @ + 1]
             ELSE IF i < upload.n
             THEN [u EXCEPT !.i = i + 1, !.attempt = 0,
                            !.list = Append(list, i + 1)]
             ELSE [u EXCEPT !.pc = "downloaded", !.list = list,
                            !.temp_files = DownloadReturns(a, list, disk)]
        /\ UNCHANGED <<managerVars, throttler, area, flow, poll, tmpdir,
                       submit, ebay, route>>

\* what the hand-over to the page can do.  Facebook: the upload button is
\* hidden, its probe raises, page.set_input_files takes the files, or it
\* raises and the file chooser takes them, or both raise.  Craigslist:
\* set_input_files takes the files or raises.
HandOverOutcomes(a) ==
    IF a = "facebook"
    THEN {"hidden", "probe_raises", "direct", "chooser", "raises"}
    ELSE {"direct", "raises"}

\* the upload-completion poll: its result is not read by _upload_images
PollOutcomes == {"complete", "timeout", "raise"}

\* `if not temp_files: return False`
NothingDownloaded ==
    /\ upload.pc = "downloaded"
    /\ upload.temp_files = <<>>
    /\ upload' = [upload EXCEPT !.pc = "finally", !.ret = "false"]
    /\ UNCHANGED <<managerVars, throttler, area, flow, poll, tmpdir, submit,
                   ebay, route>>

\* _upload_images from the return of the download function to its `finally`
\* when some file was returned.  The page takes the files only if each of
\* them exists.
HandOver(o, w) ==
    LET files == upload.temp_files
        given == o \in {"direct", "chooser", "raises"}
        taken == o \in {"direct", "chooser"}
    IN  /\ upload.pc = "downloaded"
        /\ files # <<>>
        /\ o \in HandOverOutcomes(upload.adapter)
        /\ w \in PollOutcomes
        /\ taken => \A j \in DOMAIN files : upload.disk[files[j]] # "absent"
        /\ upload' = [upload EXCEPT
              !.pc = "finally",
              !.handed = IF given THEN Some(files) ELSE @,
              !.poll = IF taken THEN w ELSE @,
              !.ret = IF taken THEN "true" ELSE "false"]
        /\ UNCHANGED <<managerVars, throttler, area, flow, poll, tmpdir,
                       submit, ebay, route>>

\* the `finally` block of _upload_images, then its return
CleanupTempFiles ==
    /\ upload.pc = "finally"
    /\ upload' = [upload EXCEPT
          !.pc = "returned",
          !.disk = cleanup_temp_files(upload.temp_files, @)]
    /\ UNCHANGED <<managerVars, throttler, area, flow, poll, tmpdir, submit,
                   ebay, route>>

\* the caller (the form-filling method) goes on; the result is not read
UploadReturn ==
    /\ upload.pc = "returned"
    /\ upload' = NoUpload
    /\ UNCHANGED <<managerVars, throttler, area, flow, poll, tmpdir, submit,
                   ebay, route>>

NextUpload ==
    \/ \E a \in ImageAdapters, n \in 0..MaxImages : CallUploadImages(a, n)
    \/ \E o \in FileInputOutcomes : FileInputVisible(o)
    \/ \E o \in DownloadOutcomes : DownloadAttempt(o)
    \/ \E o \in {"hidden", "probe_raises", "direct", "chooser", "raises"},
          w \in PollOutcomes : HandOver(o, w)
    \/ NothingDownloaded
    \/ CleanupTempFiles
    \/ UploadReturn

SpecUpload == Init /\ [][NextUpload]_vars

\* ==================================================================
\* Craigslist area selection: _handle_location_selection (craigslist.py)
\* ==================================================================

\* A text is a sequence of characters; "P" is the upper case of "p".
Chars == {"P", "p", " "}
Texts == UNION {[1..n -> Chars] : n \in 0..MaxTextLen}
OptionLists == UNION {[1..n -> Texts] : n \in 0..MaxOptions}

\* str.lower()
Lower(t) == [j \in DOMAIN t |-> IF t[j] = "P" THEN "p" ELSE t[j]]

\* str.strip()
RECURSIVE StripLeft(_)
StripLeft(t) ==
    IF t # <<>> /\ Head(t) = " " THEN StripLeft(Tail(t)) ELSE t

RECURSIVE StripRight(_)
StripRight(t) ==
    IF t # <<>> /\ t[Len(t)] = " "
    THEN StripRight(SubSeq(t, 1, Len(t) - 1))
    ELSE t

Strip(t) == StripRight(StripLeft(t))

\* `l in t` for strings
Contains(t, l) ==
    \E k \in 0..(Len(t) - Len(l)) : SubSeq(t, k + 1, k + Len(l)) = l

\* the loop `for i, option in enumerate(options)` from position pos on;
\* indexes are counted from 0 as in the code.  text_content() of an option
\* without text is None or "": both are skipped by `if text:`.
RECURSIVE ScanOptions(_, _, _, _)
ScanOptions(options, location_lower, pos, matched_index) ==
    IF pos > Len(options)
    THEN [matched_index |-> matched_index, exact_match_index |-> None]
    ELSE LET text == options[pos]
             text_lower == Strip(Lower(text))
         IN  IF text = <<>>
             THEN ScanOptions(options, location_lower, pos + 1, matched_index)
             ELSE IF location_lower = text_lower
             THEN [matched_index |-> matched_index,
                   exact_match_index |-> Some(pos - 1)]
             ELSE IF Contains(text_lower, location_lower) /\ matched_index = 0
             THEN ScanOptions(options, location_lower, pos + 1, pos - 1)
             ELSE ScanOptions(options, location_lower, pos + 1, matched_index)

SubstringMatchWins(r) == r.matched_index

\* `if exact_match_index is not None: matched_index = exact_match_index`
PreferExact(r) ==
    IF r.exact_match_index # None THEN r.exact_match_index[1]
    ELSE r.matched_index

\* _handle_location_selection(location) when no selection is made: the
\* dropdown is hidden (the function returns True), or a probe, a read of an
\* option or select_option raises (it returns False)
AreaOutcomes == {"hidden", "raise"}

NoAreaSelected(location, o) ==
    /\ area.pc = "idle"
    /\ o \in AreaOutcomes
    /\ area' = [pc |-> "returned", options |-> <<>>, location |-> location,
                outcome |-> o, index |-> None,
                ret |-> IF o = "raise" THEN "false" ELSE "true"]
    /\ UNCHANGED <<managerVars, throttler, upload, flow, poll, tmpdir, submit,
                   ebay, route>>

\* _handle_location_selection(location) on a page whose area dropdown is
\* visible and has the given options: select_option(index=matched_index)
HandleLocationSelection(options, location) ==
    /\ area.pc = "idle"
    /\ area' =
         [pc |-> "returned", options |-> options, location |-> location,
          outcome |-> "selected",
          index |-> Some(PreferExact(
                        ScanOptions(options, Lower(location), 1, 0))),
          ret |-> "true"]
    /\ UNCHANGED <<managerVars, throttler, upload, flow, poll, tmpdir, submit,
                   ebay, route>>

\* _fill_posting_form goes on; the result is not read
AreaReturn ==
    /\ area.pc = "returned"
    /\ area' = NoArea
    /\ UNCHANGED <<managerVars, throttler, upload, flow, poll, tmpdir, submit,
                   ebay, route>>

NextArea ==
    \/ /\ area.pc = "idle"
       /\ \E options \in OptionLists, location \in Texts :
             HandleLocationSelection(options, location)
    \/ \E location \in Texts, o \in AreaOutcomes : NoAreaSelected(location, o)
    \/ AreaReturn

SpecArea == Init /\ [][NextArea]_vars

\* ==================================================================
\* Inside `async with platform`: validate_credentials and post_ad of the four
\* registered adapters (facebook.py, craigslist.py, offerup.py, ebay.py)
\* ==================================================================

Adapters == {"facebook", "craigslist", "offerup", "ebay"}

\* post_ad of these adapters begins with `await self.login(credentials)`
LoginInPostAd == {"facebook", "offerup", "ebay"}

\* a step of the posting sequence.  "checked": the step reports failure and
\* the caller returns FAILED with the message; "ignored": the step reports
\* failure and the caller does not read it; "raising": the step's failure is
\* an exception that the enclosing except block turns into FAILED.
Step(n, k, m) == [name |-> n, kind |-> k, message |-> m]

\* the steps between the CAPTCHA probe and the confirmation, in order
FormSteps(a) ==
    CASE a = "craigslist" ->
           << Step("for_sale_category", "ignored", ""),
              Step("category", "ignored", ""),
              Step("wait_form", "raising", "wait_for_selector"),
              Step("title", "checked", "Failed to fill title"),
              Step("price", "checked", "Failed to fill price"),
              Step("description", "checked", "Failed to fill description"),
              Step("location", "ignored", ""),
              Step("contact", "ignored", ""),
              Step("images", "ignored", ""),
              Step("submit", "checked", "Failed to submit form"),
              Step("publish", "ignored", "") >>
      [] a = "facebook" ->
           << Step("wait_form", "raising", "wait_for_selector"),
              Step("category", "ignored", ""),
              Step("title", "checked", "Failed to fill title"),
              Step("price", "checked", "Failed to fill price"),
              Step("description", "checked", "Failed to fill description"),
              Step("location", "checked", "Failed to fill location"),
              Step("images", "ignored", ""),
              Step("publish", "checked", "Failed to submit listing") >>
      [] a = "offerup" ->
           << Step("wait_form", "raising", "wait_for_selector"),
              Step("title", "checked", "Failed to fill title"),
              Step("category", "ignored", ""),
              Step("price", "checked", "Failed to fill price"),
              Step("description", "checked", "Failed to fill description"),
              Step("location", "ignored", ""),
              Step("images", "ignored", ""),
              Step("publish", "checked", "Could not find submit button") >>
      [] OTHER -> <<>>

\* what the platform answers to the submission.  Interactive adapters look
\* at the page; the eBay adapter at the HTTP response of AddItem.
Responses(a) ==
    IF a = "ebay"
    THEN {"success", "errors", "unknown", "http_429", "http_error", "raise"}
    ELSE {"success", "errors", "unknown", "throttling"}

\* the result of the confirmation: the success indicators, then
\* _check_for_errors; eBay: _make_api_call returns None unless the status is
\* 200, and _parse_add_item_response reads Ack and Errors
Confirmation(a, response) ==
    IF a = "ebay"
    THEN CASE response = "success" ->
                PostResult("success", "Successfully listed on eBay",
                           None, None)
           [] response = "errors" ->
                PostResult("failed", "eBay listing failed", None, None)
           [] response = "unknown" ->
                PostResult("failed", "Unknown eBay API error", None, None)
           [] OTHER ->
                PostResult("failed", "No response from eBay API", None, None)
    ELSE CASE response = "success" ->
                PostResult("success", "Successfully posted", None, None)
           [] response = "unknown" ->
                PostResult("failed", "Unknown error", None, None)
           [] OTHER ->
                PostResult("failed", "platform errors", None, None)

\* what post_to_platform does with the result of post_ad
Marks(status) ==
    CASE status = "success" -> "mark_success"
      [] status = "rate_limited" -> "mark_rate_limited"
      [] OTHER -> "none"

\* the flow ends with result r
Ended(f, r) ==
    [f EXCEPT !.pc = "returned", !.result = r, !.mark = Marks(r.status)]

\* `async with platform` has opened the session of adapter a
FlowBegin(a) ==
    /\ flow.pc = "idle"
    /\ flow' = [pc |-> "validate", adapter |-> a, logins |-> 0,
                steps |-> <<>>, failed |-> {}, k |-> 1,
                probe |-> "none", response |-> "none",
                result |-> NoResult, mark |-> "none"]
    /\ UNCHANGED <<managerVars, throttler, upload, area, poll, tmpdir, submit,
                   ebay, route>>

\* validate_credentials: every adapter's is `return await self.login(...)`
FlowValidate(ok) ==
    LET f == [flow EXCEPT !.logins = @ + 1, !.steps = Append(@, "login")]
    IN  /\ flow.pc = "validate"
        /\ ok \in BOOLEAN
        /\ flow' =
             IF ~ok
             THEN Ended(f, PostResult("login_required",
                                      "Invalid credentials", None, None))
             ELSE [f EXCEPT !.pc =
                      IF flow.adapter \in LoginInPostAd THEN "login"
                      ELSE "goto"]
        /\ UNCHANGED <<managerVars, throttler, upload, area, poll, tmpdir,
                       submit, ebay, route>>

\* post_ad of Facebook, OfferUp and eBay: `if not await self.login(...)`
FlowLogin(ok) ==
    LET f == [flow EXCEPT !.logins = @ + 1, !.steps = Append(@, "login")]
    IN  /\ flow.pc = "login"
        /\ ok \in BOOLEAN
        /\ flow' =
             IF ~ok
             THEN Ended(f, PostResult("login_required", "Failed to login",
                                      None, None))
             ELSE [f EXCEPT !.pc =
                      IF flow.adapter = "ebay" THEN "confirm" ELSE "goto"]
        /\ UNCHANGED <<managerVars, throttler, upload, area, poll, tmpdir,
                       submit, ebay, route>>

\* post_ad: navigation to the posting page; an exception reaches the except
\* block of post_ad
GotoOutcomes == {"ok", "raise"}

FlowGoto(o) ==
    LET f == [flow EXCEPT !.steps = Append(@, "goto")]
    IN  /\ flow.pc = "goto"
        /\ o \in GotoOutcomes
        /\ flow' = IF o = "raise"
                   THEN Ended(f, PostResult("failed", "goto", None, None))
                   ELSE [f EXCEPT !.pc = "captcha"]
        /\ UNCHANGED <<managerVars, throttler, upload, area, poll, tmpdir,
                       submit, ebay, route>>

\* wait_and_handle_captcha: no indicator is visible, one is visible, or the
\* probe raises; it returns False in the last two cases
ProbeOutcomes == {"clear", "visible", "raise"}

wait_and_handle_captcha(o) == o = "clear"

\* `if not await self.wait_and_handle_captcha(): return CAPTCHA_REQUIRED`
FlowCaptcha(o) ==
    LET f == [flow EXCEPT !.steps = Append(@, "captcha_probe"), !.probe = o]
    IN  /\ flow.pc = "captcha"
        /\ o \in ProbeOutcomes
        /\ flow' = IF wait_and_handle_captcha(o)
                   THEN [f EXCEPT !.pc = "form", !.k = 1]
                   ELSE Ended(f, PostResult("captcha_required",
                                            "CAPTCHA required", None, None))
        /\ UNCHANGED <<managerVars, throttler, upload, area, poll, tmpdir,
                       submit, ebay, route>>

\* one step of the posting sequence completes or does not
StepOutcomes == {"ok", "fail"}

FlowStep(o) ==
    LET st == FormSteps(flow.adapter)[flow.k]
        f == [flow EXCEPT
                 !.steps = Append(@, st.name),
                 !.failed = IF o = "fail" THEN @ \cup {st.name} ELSE @]
    IN  /\ flow.pc = "form"
        /\ o \in StepOutcomes
        /\ flow' =
             IF o = "fail" /\ st.kind # "ignored"
             THEN Ended(f, PostResult("failed", st.message, None, None))
             ELSE IF flow.k < Len(FormSteps(flow.adapter))
             THEN [f EXCEPT !.k = @ + 1]
             ELSE [f EXCEPT !.pc = "confirm"]
        /\ UNCHANGED <<managerVars, throttler, upload, area, poll, tmpdir,
                       submit, ebay, route>>

\* the platform's answer is read: the success indicators and
\* _check_for_errors; eBay: the AddItem call and _parse_add_item_response
FlowConfirm(r) ==
    /\ flow.pc = "confirm"
    /\ r \in Responses(flow.adapter)
    /\ flow' = Ended([flow EXCEPT !.steps = Append(@, "confirm"),
                                  !.response = r],
                     Confirmation(flow.adapter, r))
    /\ UNCHANGED <<managerVars, throttler, upload, area, poll, tmpdir, submit,
                   ebay, route>>

\* `return result`, __aexit__ and the return of post_to_platform
FlowReturn ==
    /\ flow.pc = "returned"
    /\ flow' = NoFlow
    /\ UNCHANGED <<managerVars, throttler, upload, area, poll, tmpdir, submit,
                   ebay, route>>

NextFlow ==
    \/ \E a \in Adapters : FlowBegin(a)
    \/ \E ok \in BOOLEAN : FlowValidate(ok)
    \/ \E ok \in BOOLEAN : FlowLogin(ok)
    \/ \E o \in GotoOutcomes : FlowGoto(o)
    \/ \E o \in ProbeOutcomes : FlowCaptcha(o)
    \/ \E o \in StepOutcomes : FlowStep(o)
    \/ \E r \in Responses("ebay") \cup Responses("facebook") : FlowConfirm(r)
    \/ FlowReturn

SpecFlow == Init /\ [][NextFlow]_vars


\* ==================================================================
\* The upload-completion poll: _wait_for_upload_completion (facebook.py)
\* and _wait_for_craigslist_upload_completion (craigslist.py).  Time is in
\* seconds since start_time.
\* ==================================================================

\* the values of the `timeout` argument (Facebook: or of self.upload_timeout)
UploadTimeouts == {min_upload_timeout \div 2, min_upload_timeout,
                   default_upload_timeout}

TimeoutAsGiven(a, t) == t

\* Craigslist uses the argument as it is; Facebook raises a value below 60
\* to 60
effective_timeout(a, t) ==
    IF a = "facebook" /\ t < min_upload_timeout THEN min_upload_timeout
    ELSE t

\* `await asyncio.sleep(1)` (Facebook), `await asyncio.sleep(2)` (Craigslist)
poll_interval(a) == IF a = "facebook" THEN 1 ELSE 2

\* _upload_images calls the poll with the default timeout; Facebook's can be
\* any configured value
CallWaitForUpload(a, t) ==
    /\ poll.pc = "idle"
    /\ a = "craigslist" => t = craigslist_upload_timeout
    /\ poll' = [pc |-> "polling", adapter |-> a, timeout |-> t,
                effective |-> effective_timeout(a, t),
                elapsed |-> 0, polls |-> 0, last |-> "none", ret |-> "none"]
    /\ UNCHANGED <<managerVars, throttler, upload, area, flow, tmpdir, submit,
                   ebay, route>>

\* what the page queries of one iteration find: the uploads are complete, they
\* are not, or a query raises
QueryOutcomes == {"complete", "pending", "raise"}

\* one iteration of `while True`: the timeout test, the page queries (they
\* take d seconds) and the sleep
PollIteration(o, d) ==
    /\ poll.pc = "polling"
    /\ o \in QueryOutcomes
    /\ d \in 0..MaxQueryTime
    /\ poll.polls < MaxPolls
    /\ poll' =
         IF poll.elapsed > poll.effective
         THEN [poll EXCEPT !.pc = "returned", !.ret = "false",
                           !.last = "timeout"]
         ELSE CASE o = "complete" ->
                     [poll EXCEPT !.pc = "returned", !.ret = "true",
                                  !.last = o, !.polls = @ + 1]
                [] o = "raise" ->
                     [poll EXCEPT !.pc = "returned", !.ret = "false",
                                  !.last = o, !.polls = @ + 1]
                [] OTHER ->
                     [poll EXCEPT !.last = o, !.polls = @ + 1,
                                  !.elapsed = @ + d
                                              + poll_interval(poll.adapter)]
    /\ UNCHANGED <<managerVars, throttler, upload, area, flow, tmpdir, submit,
                   ebay, route>>

\* _upload_images goes on; the result is not read
PollReturn ==
    /\ poll.pc = "returned"
    /\ poll' = NoPoll
    /\ UNCHANGED <<managerVars, throttler, upload, area, flow, tmpdir, submit,
                   ebay, route>>

NextPoll ==
    \/ \E a \in ImageAdapters, t \in UploadTimeouts : CallWaitForUpload(a, t)
    \/ \E o \in QueryOutcomes, d \in 0..MaxQueryTime : PollIteration(o, d)
    \/ PollReturn

\* The event loop resumes the coroutine when the query or the sleep it
\* awaits has completed.
SpecPoll ==
    /\ Init
    /\ [][NextPoll]_vars
    /\ WF_vars(\E o \in QueryOutcomes, d \in 0..MaxQueryTime :
                  PollIteration(o, d))


\* ==================================================================
\* The temp directory shared by overlapping _upload_images calls
\* (facebook.py, craigslist.py): which attempt wrote the file at a path
\* ==================================================================

\* the attempts that can overlap
Uploaders == {"x", "y"}

\* os.path.join(tempfile.gettempdir(), f"fb_upload_{i}{ext}") and
\* f"craigslist_upload_{i}{ext}": the path is made of the adapter's prefix
\* and the image's position; the attempt t is not part of it
temp_file(a, t, i) == <<a, i>>

TempPaths == {temp_file(a, t, i) :
                 a \in ImageAdapters, t \in Uploaders, i \in 1..MaxShared}

IdleUploader == [pc |-> "idle", adapter |-> "facebook", n |-> 0, i |-> 0,
                 temp_files |-> <<>>]

\* an attempt begins _upload_images with n image URLs
BeginUpload(t, a, n) ==
    /\ tmpdir.att[t].pc = "idle"
    /\ tmpdir' = [tmpdir EXCEPT !.att[t] =
                     [pc |-> "download", adapter |-> a, n |-> n, i |-> 1,
                      temp_files |-> <<>>]]
    /\ UNCHANGED <<managerVars, throttler, upload, area, flow, poll, submit,
                   ebay, route>>

\* the download of the image at position i: aiofiles.open(temp_file, "wb")
\* and write; the path is tracked
WriteTempFile(t) ==
    LET u == tmpdir.att[t]
        f == temp_file(u.adapter, t, u.i)
        prev == tmpdir.files[f]
    IN  /\ u.pc = "download"
        /\ tmpdir' = [tmpdir EXCEPT
              !.files[f] = Some(t),
              !.foreign = IF prev \notin {None, Some(t)}
                          THEN @ \cup {<<t, "overwrite">>} ELSE @,
              !.att[t] = [u EXCEPT
                            !.temp_files = Append(@, f),
                            !.i = @ + 1,
                            !.pc = IF u.i = u.n THEN "downloaded"
                                   ELSE "download"]]
        /\ UNCHANGED <<managerVars, throttler, upload, area, flow, poll,
                       submit, ebay, route>>

\* set_input_files(file_input, temp_files): the page reads the files at the
\* paths; it raises when one of them does not exist
SetInputFiles(t) ==
    LET u == tmpdir.att[t]
        read == {tmpdir.files[u.temp_files[j]] : j \in DOMAIN u.temp_files}
    IN  /\ u.pc = "downloaded"
        /\ tmpdir' = [tmpdir EXCEPT
              !.foreign = IF None \notin read /\ read # {Some(t)}
                          THEN @ \cup {<<t, "upload">>} ELSE @,
              !.att[t].pc = "finally"]
        /\ UNCHANGED <<managerVars, throttler, upload, area, flow, poll,
                       submit, ebay, route>>

\* _cleanup_temp_files(temp_files): os.unlink of every tracked path that
\* exists; then _upload_images returns
UnlinkTempFiles(t) ==
    LET u == tmpdir.att[t]
        tracked == {u.temp_files[j] : j \in DOMAIN u.temp_files}
    IN  /\ u.pc = "finally"
        /\ tmpdir' = [tmpdir EXCEPT
              !.files = [f \in TempPaths |->
                            IF f \in tracked THEN None ELSE @[f]],
              !.foreign = IF \E f \in tracked :
                                tmpdir.files[f] \notin {None, Some(t)}
                          THEN @ \cup {<<t, "delete">>} ELSE @,
              !.att[t] = IdleUploader]
        /\ UNCHANGED <<managerVars, throttler, upload, area, flow, poll,
                       submit, ebay, route>>

NextTemp ==
    \/ \E t \in Uploaders, a \in ImageAdapters, n \in 1..MaxShared :
          BeginUpload(t, a, n)
    \/ \E t \in Uploaders : WriteTempFile(t)
    \/ \E t \in Uploaders : SetInputFiles(t)
    \/ \E t \in Uploaders : UnlinkTempFiles(t)

SpecTemp == Init /\ [][NextTemp]_vars


\* ==================================================================
\* Craigslist: the confirmation after the publish click,
\* _handle_preview_and_submit and _check_for_errors (craigslist.py)
\* ==================================================================

\* an element the error selectors find: is_visible() and text_content()
\* (None is read as the empty text: both are falsy)
ErrorTexts == UNION {[1..n -> Chars] : n \in 0..MaxErrorTextLen}
ErrorElements == [visible : BOOLEAN, text : ErrorTexts]
ElementLists == UNION {[1..n -> ErrorElements] : n \in 0..MaxErrors}

\* ', '.join(error_messages)
RECURSIVE Join(_)
Join(texts) ==
    IF texts = <<>> THEN <<>>
    ELSE IF Len(texts) = 1 THEN texts[1]
    ELSE texts[1] \o <<",", " ">> \o Join(Tail(texts))

\* the loop of _check_for_errors from element k on, in discovery order; a
\* query of element raise_at raises (0: none does) and the except block
\* keeps what has been collected
RECURSIVE ScanErrors(_, _, _, _)
ScanErrors(elements, raise_at, k, error_messages) ==
    IF k > Len(elements) \/ k = raise_at THEN error_messages
    ELSE LET e == elements[k] IN
         IF e.visible /\ e.text # <<>> /\ Strip(e.text) # <<>>
         THEN ScanErrors(elements, raise_at, k + 1,
                         Append(error_messages, Strip(e.text)))
         ELSE ScanErrors(elements, raise_at, k + 1, error_messages)

FirstErrorOnly(elements, raise_at) ==
    LET all == ScanErrors(elements, raise_at, 1, <<>>)
    IN  IF all = <<>> THEN <<>> ELSE <<all[1]>>

check_for_errors(elements, raise_at) ==
    ScanErrors(elements, raise_at, 1, <<>>)

\* what the probes of the success indicators find: one is visible, none is,
\* or a probe raises
SuccessProbes == {"visible", "none", "raise"}

\* _handle_preview_and_submit from the success probes to its return
HandlePreviewAndSubmit(probe, elements, raise_at) ==
    /\ submit.pc = "idle"
    /\ probe \in SuccessProbes
    /\ raise_at \in 0..Len(elements)
    /\ probe # "none" => (elements = <<>> /\ raise_at = 0)
    /\ submit' =
         [pc |-> "returned", probe |-> probe, elements |-> elements,
          raise_at |-> raise_at,
          result |->
             CASE probe = "visible" ->
                    [status |-> "success",
                     message |-> "Successfully posted to Craigslist",
                     detail |-> <<>>]
               [] probe = "raise" ->
                    [status |-> "failed", message |-> "str(e)",
                     detail |-> <<>>]
               [] OTHER ->
                    LET error_messages == check_for_errors(elements, raise_at)
                    IN  IF error_messages # <<>>
                        THEN [status |-> "failed",
                              message |-> "Craigslist errors: ",
                              detail |-> Join(error_messages)]
                        ELSE [status |-> "failed",
                              message |-> "Posting status unknown - may require manual verification",
                              detail |-> <<>>]]
    /\ UNCHANGED <<managerVars, throttler, upload, area, flow, poll, tmpdir,
                   ebay, route>>

\* post_ad returns the result
SubmitReturn ==
    /\ submit.pc = "returned"
    /\ submit' = NoSubmit
    /\ UNCHANGED <<managerVars, throttler, upload, area, flow, poll, tmpdir,
                   ebay, route>>

NextSubmit ==
    \/ /\ submit.pc = "idle"
       /\ \E probe \in SuccessProbes, elements \in ElementLists,
             raise_at \in 0..MaxErrors :
             HandlePreviewAndSubmit(probe, elements, raise_at)
    \/ SubmitReturn

SpecSubmit == Init /\ [][NextSubmit]_vars


\* ==================================================================
\* eBay: the API credentials the adapter keeps (ebay.py).  Two runs of the
\* adapter are followed side by side: they get the same attempts, except
\* that the credentials of their earlier attempts may differ.
\* ==================================================================

Runs == {1, 2}

\* a value of app_id / dev_id / cert_id / user_token; "none" is None
KeyValues == {"none", "A", "B"}

\* credentials.additional_data: None, the empty dict, or a dict;
\* dict.get of a key that is missing gives None
AdditionalData ==
    {[kind |-> k, app_id |-> "none", dev_id |-> "none", cert_id |-> "none",
      user_token |-> "none"] : k \in {"None", "empty"}}
    \cup {[kind |-> "dict", app_id |-> k, dev_id |-> k, cert_id |-> k,
           user_token |-> t] : k \in KeyValues, t \in KeyValues}

\* self.app_id, self.dev_id, self.cert_id, self.user_token
Keys(d) == [app_id |-> d.app_id, dev_id |-> d.dev_id, cert_id |-> d.cert_id,
            user_token |-> d.user_token]

\* login: `if credentials.additional_data:` the four attributes are set from
\* it; otherwise they keep the values they have
StoreKeys(stored, d) ==
    IF d.kind = "dict" THEN Keys(d) ELSE stored

\* the request _build_xml_request and _make_api_call send: the token is
\* formatted into the XML, the three ids go into headers as str(x or "")
Request(call, k) ==
    LET header(v) == IF v = "none" THEN "" ELSE v
    IN  [call |-> call,
         token |-> IF k.user_token = "none" THEN "None" ELSE k.user_token,
         dev |-> header(k.dev_id), app |-> header(k.app_id),
         cert |-> header(k.cert_id)]

\* login(credentials) of an attempt, in both runs: the keys are stored and
\* GeteBayOfficialTime is sent; ok[r] is whether the response validates them.
\* In the later phase both runs get the same credentials.
EbayLogin(d, ok) ==
    LET keys == [r \in Runs |-> StoreKeys(ebay.keys[r], d[r])]
        req == [r \in Runs |-> Request("GeteBayOfficialTime", keys[r])]
    IN  /\ ebay.pc = "idle"
        /\ ebay.phase = "later" => d[1] = d[2]
        /\ req[1] = req[2] => ok[1] = ok[2]
        /\ ebay' = [ebay EXCEPT
              !.pc = "logged_in",
              !.supplied = d,
              !.keys = keys,
              !.ok = ok,
              !.sent = [r \in Runs |-> <<req[r]>>]]
        /\ UNCHANGED <<managerVars, throttler, upload, area, flow, poll,
                       tmpdir, submit, route>>

\* post_ad after login: LOGIN_REQUIRED when login returned False, else
\* _create_ebay_listing sends AddItem
EbayCreateListing ==
    /\ ebay.pc = "logged_in"
    /\ ebay' = [ebay EXCEPT
          !.pc = "returned",
          !.sent = [r \in Runs |->
                       IF ebay.ok[r]
                       THEN Append(@[r], Request("AddItem", ebay.keys[r]))
                       ELSE @[r]]]
    /\ UNCHANGED <<managerVars, throttler, upload, area, flow, poll, tmpdir,
                   submit, route>>

\* the attempt is over; the adapter object stays in the registry with its
\* attributes.  The attempts that follow may be the later ones.
EbayReturn(later) ==
    /\ ebay.pc = "returned"
    /\ ebay.phase = "later" => later
    /\ ebay' = [ebay EXCEPT
          !.pc = "idle",
          !.phase = IF later THEN "later" ELSE @]
    /\ UNCHANGED <<managerVars, throttler, upload, area, flow, poll, tmpdir,
                   submit, route>>

NextEbay ==
    \/ /\ ebay.pc = "idle"
       /\ \E d \in [Runs -> AdditionalData], ok \in [Runs -> BOOLEAN] :
             EbayLogin(d, ok)
    \/ EbayCreateListing
    \/ \E later \in BOOLEAN : EbayReturn(later)

SpecEbay == Init /\ [][NextEbay]_vars


\* ==================================================================
\* The single-platform HTTP handler: post_ad of routes/ads.py
\* ==================================================================

\* a response: the returned PostedAd (200) or the HTTPException that
\* leaves the handler, with the seconds its detail names
Response(code, detail, seconds) ==
    [status_code |-> code, detail |-> detail, seconds |-> seconds]

NoResponse == Response(0, "", None)

\* what post_to_platform can hand to the handler
RouteResults ==
    {PostResult(s, m, e, r) :
        s \in PostStatus,
        m \in {"adapter", "Platform is rate limited", "Invalid credentials"},
        e \in {None, Some("AUTOMATION_ERROR")},
        r \in RetryAfters}

\* the lookups before the try block: HTTPException(404) when the ad is not
\* found, HTTPException(400) when there are no credentials
RouteLookup(ad, credentials) ==
    /\ route.pc = "idle"
    /\ route' =
         IF ~ad
         THEN [pc |-> "responded", result |-> NoResult, raised |-> NoResponse,
               response |-> Response(404, "Ad not found", None)]
         ELSE IF ~credentials
         THEN [pc |-> "responded", result |-> NoResult, raised |-> NoResponse,
               response |-> Response(400, "No credentials found", None)]
         ELSE [pc |-> "try", result |-> NoResult, raised |-> NoResponse,
               response |-> NoResponse]
    /\ UNCHANGED <<managerVars, throttler, upload, area, flow, poll, tmpdir,
                   submit, ebay>>

\* the `raise HTTPException(...)` statements for a result that is not
\* SUCCESS
FailureException(result) ==
    CASE result.status = "rate_limited" ->
           Response(429, "Rate limited. Try again in {retry_after} seconds.",
                    result.retry_after)
      [] result.status = "login_required" ->
           Response(401, "Authentication failed", None)
      [] result.status = "captcha_required" ->
           Response(423, "CAPTCHA required", None)
      [] OTHER -> Response(400, "Failed to post", None)

\* an exception that is not an HTTPException (status_code 0)
Unexpected(what) == Response(0, what, None)

\* `except Exception as e: raise HTTPException(status_code=500, ...) from e`
\* around the whole try block; HTTPException is an Exception
ExceptException(e) ==
    Response(500, "Internal error posting", e.seconds)

\* the try block: post_to_platform returns `result` (or an unexpected
\* exception is raised); for SUCCESS the record is saved (the save can
\* raise) and returned; otherwise an HTTPException is raised inside the try
\* block, where the except clause receives it
RouteTry(o, result, saved) ==
    LET raise(e) == [route EXCEPT !.pc = "responded", !.result = result,
                                  !.raised = e,
                                  !.response = ExceptException(e)]
    IN  /\ route.pc = "try"
        /\ o \in {"returns", "raises"}
        /\ o = "raises" => (result = NoResult /\ saved)
        /\ o = "returns" => result \in RouteResults
        /\ (o = "returns" /\ result.status # "success") => saved
        /\ route' =
             IF o = "raises" THEN raise(Unexpected("post_to_platform"))
             ELSE IF result.status = "success"
             THEN IF saved
                  THEN [route EXCEPT
                           !.pc = "responded", !.result = result,
                           !.response = Response(200, "PostedAd", None)]
                  ELSE raise(Unexpected("insert_one"))
             ELSE raise(FailureException(result))
        /\ UNCHANGED <<managerVars, throttler, upload, area, flow, poll,
                       tmpdir, submit, ebay>>

\* the response is sent
RouteRespond ==
    /\ route.pc = "responded"
    /\ route' = NoRoute
    /\ UNCHANGED <<managerVars, throttler, upload, area, flow, poll, tmpdir,
                   submit, ebay>>

NextRoute ==
    \/ \E ad \in BOOLEAN, credentials \in BOOLEAN :
          RouteLookup(ad, credentials)
    \/ \E o \in {"returns", "raises"},
          result \in RouteResults \cup {NoResult}, saved \in BOOLEAN :
          RouteTry(o, result, saved)
    \/ RouteRespond

SpecRoute == Init /\ [][NextRoute]_vars

\* ==================================================================
\* Properties
\* ==================================================================

InFlight == {"init", "validate", "post", "cleanup"}

Count(seq, x) == Cardinality({i \in DOMAIN seq : seq[i] = x})

Range(seq) == {seq[i] : i \in DOMAIN seq}

\* the adapter still refers to an open object of kind k
HoldsOpen(k, p) == Attr(k, p) # None /\ <<k, p, Attr(k, p)[1]>> \in live

\* C1: every post_to_platform call that has ended has returned one
\* PostResult whose status is one of the six PostStatus values; it has not
\* raised and has not returned None, whatever the platform name and whatever
\* the adapter and the browser did.
C1_ReturnsOnePostResult ==
    \A c \in Callers :
        pc[c] = "done" =>
            /\ ret[c].kind = "returned"
            /\ ret[c].result # NoResult
            /\ ret[c].result.status \in PostStatus

C1_Witness ==
    \E c \in Callers :
        /\ pc[c] = "done"
        /\ pend[c].kind = "raise"
        /\ pend[c].exc = "post_ad"
        /\ "cleanup" \in Range(calls[c])
        /\ ret[c].result.status = "failed"

\* C2: a post_to_platform call made while the adapter's blocked_until is in
\* the future has returned RATE_LIMITED, and no primitive of the adapter
\* (initialize_browser, validate_credentials, post_ad, cleanup) has been
\* invoked by it.  (A call that finds blocked_until in the past cannot see
\* it in the future later: the clock does not go back.)
C2_BlockedCallTouchesNothing ==
    \A c \in Callers :
        (/\ pc[c] \in InFlight \cup {"done"}
         /\ plat[c] \in Registered
         /\ entry[c].bu # None
         /\ now < entry[c].bu[1])
        => (/\ pc[c] = "done"
            /\ ret[c].kind = "returned"
            /\ ret[c].result.status = "rate_limited"
            /\ calls[c] = <<>>)

C2_Witness ==
    \E c \in Callers :
        /\ pc[c] = "done"
        /\ plat[c] \in Registered
        /\ entry[c].bu # None
        /\ now < entry[c].bu[1]
        /\ ret[c].result.status = "rate_limited"
        /\ calls[c] = <<>>
        /\ live # {}

\* C3: when post_to_platform returns a SUCCESS result, the adapter's
\* consecutive_failures is 0 and its blocked_until is None at that moment,
\* whatever they were when the call began.
C3_SuccessResetsFailureState ==
    \A c \in Callers :
        (/\ pc[c] = "done"
         /\ plat[c] \in Registered
         /\ ret[c].result.status = "success")
        => (/\ consecutive_failures[plat[c]] = 0
            /\ blocked_until[plat[c]] = None)

C3_Witness ==
    \E c \in Callers :
        /\ pc[c] = "done"
        /\ plat[c] \in Registered
        /\ ret[c].result.status = "success"
        /\ entry[c].cf > 0
        /\ entry[c].bu # None
        /\ consecutive_failures[plat[c]] = 0
        /\ blocked_until[plat[c]] = None

\* the retry_after that mark_rate_limited is given for a result
Effective(r) == IF r = None \/ r = Some(0) THEN 300 ELSE r[1]

\* C4 (as claimed): after every post_to_platform call that returns
\* RATE_LIMITED, from the adapter or from the blocked-adapter fast path,
\* blocked_until equals the time of return plus the result's retry_after and
\* consecutive_failures is one greater than before the call.
C4_Original ==
    \A c \in Callers :
        (/\ pc[c] = "done"
         /\ plat[c] \in Registered
         /\ ret[c].result.status = "rate_limited")
        => (/\ ret[c].result.retry_after # None
            /\ blocked_until[plat[c]] =
                  Some(now + Seconds(ret[c].result.retry_after[1]))
            /\ consecutive_failures[plat[c]] = entry[c].cf + 1)

\* C4 (amended): after a RATE_LIMITED result that the adapter produced,
\* consecutive_failures is one greater than before the call and
\* blocked_until is a moment of the call (not after the return) plus the
\* result's retry_after, or plus 300 s when retry_after is None or 0.  After
\* a RATE_LIMITED result of the fast path the adapter state is what it was
\* before the call, and blocked_until is less than one second later than the
\* time of return plus retry_after.
C4_RateLimitedState ==
    \A c \in Callers :
        (/\ pc[c] = "done"
         /\ plat[c] \in Registered
         /\ ret[c].result.status = "rate_limited")
        => LET p == plat[c]
               r == ret[c].result.retry_after
           IN  IF "post_ad" \in Range(calls[c])
               THEN /\ consecutive_failures[p] = entry[c].cf + 1
                    /\ \E t \in 0 .. now :
                          blocked_until[p] = Some(t + Seconds(Effective(r)))
               ELSE /\ consecutive_failures[p] = entry[c].cf
                    /\ blocked_until[p] = entry[c].bu
                    /\ r # None
                    /\ blocked_until[p] # None
                    /\ now + Seconds(r[1]) <= blocked_until[p][1]
                    /\ blocked_until[p][1] < now + Seconds(r[1] + 1)

C4_Witness ==
    \E c \in Callers :
        /\ pc[c] = "done"
        /\ plat[c] \in Registered
        /\ ret[c].result.status = "rate_limited"
        /\ calls[c] = <<>>
        /\ ret[c].result.retry_after = Some(0)
        /\ blocked_until[plat[c]] = Some(now + 1)
        /\ consecutive_failures[plat[c]] = entry[c].cf

\* C5 (as claimed): when an attempt has reached the adapter and ends with a
\* result other than SUCCESS or RATE_LIMITED, consecutive_failures is one
\* greater than before the call and blocked_until is unchanged.
C5_Original ==
    \A c \in Callers :
        (/\ pc[c] = "done"
         /\ plat[c] \in Registered
         /\ calls[c] # <<>>
         /\ ret[c].result.status \notin {"success", "rate_limited"})
        => (/\ consecutive_failures[plat[c]] = entry[c].cf + 1
            /\ blocked_until[plat[c]] = entry[c].bu)

\* C6: an exception raised while opening the session, validating the
\* credentials or running post_ad does not leave post_to_platform: the call
\* returns a result with status FAILED, error_code "AUTOMATION_ERROR" and
\* the exception text as message, and consecutive_failures is one greater
\* than before the call.
C6_ExceptionBecomesFailed ==
    \A c \in Callers :
        (/\ pc[c] = "done"
         /\ pend[c].kind = "raise")
        => (/\ ret[c].kind = "returned"
            /\ ret[c].result.status = "failed"
            /\ ret[c].result.error_code = Some("AUTOMATION_ERROR")
            /\ ret[c].result.message = pend[c].exc
            /\ consecutive_failures[plat[c]] = entry[c].cf + 1)

C6_Witness ==
    \E c \in Callers :
        /\ pc[c] = "done"
        /\ pend[c].kind = "raise"
        /\ pend[c].exc = "validate_credentials"
        /\ entry[c].cf = 1
        /\ consecutive_failures[plat[c]] = 2
        /\ ret[c].result.error_code = Some("AUTOMATION_ERROR")

\* C7: post_to_multiple_platforms does not raise, and the entry of a
\* platform is the outcome of that platform's own attempt: SUCCESS when its
\* post_ad returned SUCCESS, FAILED when its attempt raised, whatever the
\* attempts of the other platforms did; an entry once stored stays.
C7_IsolatedResults ==
    \A c \in Callers :
        mode[c] = "multi" =>
            /\ DOMAIN attempted[c] = DOMAIN results[c]
            /\ \A n \in DOMAIN attempted[c] :
                  /\ results[c][n].status \in PostStatus
                  /\ attempted[c][n] = "success"
                        => results[c][n].status = "success"
                  /\ attempted[c][n] = "raise"
                        => results[c][n].status = "failed"
            /\ pc[c] = "mdone" => DOMAIN results[c] = Range(tasks[c])

C7_Witness ==
    \E c \in Callers :
        /\ mode[c] = "multi"
        /\ pc[c] = "mdone"
        /\ Len(tasks[c]) = 2
        /\ attempted[c][tasks[c][1]] = "raise"
        /\ attempted[c][tasks[c][2]] = "success"
        /\ results[c][tasks[c][1]].status = "failed"
        /\ results[c][tasks[c][2]].status = "success"

\* the i-th task of the multi call of caller c has been started
Started(c, i) == i < idx[c] \/ (i = idx[c] /\ pc[c] # "ready")

\* C8 (as claimed): the attempts of one post_to_multiple_platforms call run
\* concurrently: while the attempt of one platform is suspended in its
\* session (validating, posting or cleaning up), the attempt of the next,
\* distinct platform has been started.
C8_Original ==
    \A c \in Callers :
        (/\ mode[c] = "multi"
         /\ pc[c] \in {"validate", "post", "cleanup"}
         /\ idx[c] < Len(tasks[c])
         /\ tasks[c][idx[c]] # tasks[c][idx[c] + 1])
        => Started(c, idx[c] + 1)

\* C9: the keys of the map post_to_multiple_platforms returns are the
\* requested names that are keys of credentials_map, no others, and no
\* attempt is made for a name outside that set: the tasks created by the
\* first loop are exactly for those names, every attempt is the awaited
\* task's, and the map returned has exactly the tasks' names as keys.
C9_KeysAreRequestedWithCredentials ==
    \A c \in Callers :
        mode[c] = "multi" =>
            /\ (pc[c] = "ready" /\ idx[c] = 1) \/ tasks[c] = <<>>
                  => Range(tasks[c]) =
                        Range(platforms[c]) \cap credentials_map[c]
            /\ DOMAIN results[c] = {tasks[c][i] : i \in 1..(idx[c] - 1)}
            /\ pc[c] = "mdone" => DOMAIN results[c] = Range(tasks[c])
            /\ pc[c] \in InFlight \cup {"done"}
                  => idx[c] \in DOMAIN tasks[c] /\ plat[c] = tasks[c][idx[c]]

C9_Witness ==
    \E c \in Callers :
        /\ mode[c] = "multi"
        /\ pc[c] = "ready"
        /\ idx[c] = 1
        /\ Range(platforms[c]) \ credentials_map[c] # {}
        /\ Range(tasks[c]) # {}
        /\ Range(tasks[c]) # Range(platforms[c])

\* C11 (as claimed): a session is owned by one attempt.  While an attempt is
\* about to navigate (validate_credentials or post_ad comes next), the page
\* its adapter refers to is the page this attempt opened, and that page, its
\* context and its browser are open: no other attempt's cleanup has closed
\* them.
C11_Original ==
    \A c \in Callers :
        pc[c] \in {"validate", "post"} =>
            /\ page[plat[c]] = Some(c)
            /\ \A k \in {"page", "context", "browser"} :
                  <<k, plat[c], c>> \in live

\* C12 (as claimed): every attempt that is delegated to an adapter passes the
\* adapter's rate limiter first: when validate_credentials, the first
\* outbound interaction of the attempt, has been invoked, a token has been
\* taken from that adapter's throttler.
C12_Original ==
    \A c \in Callers :
        (/\ plat[c] \in Registered
         /\ "validate_credentials" \in Range(calls[c]))
        => throttler[plat[c]] > 0

\* C13 (as claimed): the file list handed to the page's file-upload
\* primitive is the list of the images whose download succeeded, in the
\* original order, and names no file that was not downloaded.
C13_Original ==
    (upload.pc # "idle" /\ upload.handed # None) =>
        upload.handed[1] =
            SelectSeq([f \in 1..upload.n |-> f],
                      LAMBDA f : f \in upload.succeeded)

\* C14: when _upload_images has returned, whatever the downloads, the upload
\* control, the hand-over and the completion poll did, no temp file of the
\* call exists any more.  (os.unlink of an existing file is taken to
\* succeed.)
C14_TempFilesDeleted ==
    upload.pc = "returned" =>
        \A f \in DOMAIN upload.disk : upload.disk[f] = "absent"

C14_Witness ==
    /\ upload.pc = "returned"
    /\ upload.n = 3
    /\ upload.created = {1, 2, 3}
    /\ upload.succeeded = {1, 3}
    /\ upload.handed # None
    /\ upload.poll = "timeout"
    /\ \A f \in DOMAIN upload.disk : upload.disk[f] = "absent"

\* the positions (from 0) of the options whose text, trimmed and compared
\* without regard to case, equals the location
ExactMatches(options, location) ==
    {i - 1 : i \in {j \in DOMAIN options :
                        Strip(Lower(options[j])) = Lower(location)}}

Least(S) == CHOOSE x \in S : \A y \in S : x <= y

\* C15 (as claimed): for every list of options and every location, if some
\* option's text (trimmed, case-insensitive) equals the location, the option
\* selected is the first such option.
C15_Original ==
    (area.pc = "returned" /\ area.outcome = "selected") =>
        LET E == ExactMatches(area.options, area.location)
        IN  E # {} => area.index = Some(Least(E))

\* C15 (amended): for every list of options and every location, if some
\* option with a non-empty text equals the location (trimmed,
\* case-insensitive), the option selected is the first such option, also
\* when options that contain the location come before or after it.
C15_FirstExactMatchSelected ==
    (area.pc = "returned" /\ area.outcome = "selected") =>
        LET E == {i \in ExactMatches(area.options, area.location) :
                     area.options[i + 1] # <<>>}
        IN  E # {} => area.index = Some(Least(E))

C15_Witness ==
    /\ area.pc = "returned"
    /\ area.outcome = "selected"
    /\ area.location = <<"P">>
    /\ area.options = << <<"p", "p">>, <<"p", " ">> >>
    /\ area.index = Some(1)

\* the steps of the posting sequence that have been executed
FormStepsDone == {flow.steps[j] : j \in DOMAIN flow.steps}
                     \ {"login", "goto", "captcha_probe", "confirm"}

\* C17 (as claimed): post_ad returns CAPTCHA_REQUIRED if and only if the
\* probe made after navigating to the posting page found an indicator
\* visible; the result carries no retry_after, no form step has been
\* executed, and the manager marks nothing for it.
C17_Original ==
    flow.pc = "returned" =>
        /\ flow.result.status = "captcha_required" <=> flow.probe = "visible"
        /\ flow.result.status = "captcha_required" =>
              /\ flow.result.retry_after = None
              /\ FormStepsDone = {}
              /\ flow.mark = "none"

\* C18 (as claimed): when the platform answers the submission with a
\* throttling response (HTTP 429 from the eBay API, a throttling page in an
\* interactive flow), post_ad returns RATE_LIMITED with a retry_after and
\* post_to_platform marks the adapter rate limited.
C18_Original ==
    (flow.pc = "returned" /\ flow.response \in {"http_429", "throttling"}) =>
        /\ flow.result.status = "rate_limited"
        /\ flow.result.retry_after # None
        /\ flow.mark = "mark_rate_limited"

\* C19 (as claimed): an attempt is all-or-nothing: once a step of the
\* posting sequence has not completed, the attempt has been abandoned with
\* FAILED and no later step has been executed.
C19_Original ==
    (flow.pc # "idle" /\ flow.failed # {}) =>
        /\ flow.pc = "returned"
        /\ flow.result.status = "failed"
        /\ flow.steps[Len(flow.steps)] \in flow.failed

\* C20 (as claimed): within one attempt the login procedure is executed
\* exactly once, and it has completed before the first step that follows it.
C20_Original ==
    flow.pc # "idle" =>
        /\ flow.logins <= 1
        /\ flow.steps # <<>> =>
              flow.steps[1] = "login" /\ flow.logins = 1

\* C16: a post_to_platform call with a name that is not in the registry ends
\* in the step that begins it: it returns FAILED, none of the session
\* primitives is invoked, no browser-side object is opened, and
\* consecutive_failures, last_success_time and blocked_until of every
\* registered adapter are what they were.
C16_UnknownPlatformFailsFast ==
    [][\A c \in Callers :
          (/\ pc[c] \in {"idle", "ready"}
           /\ pc'[c] \in InFlight \cup {"done"}
           /\ plat'[c] \notin Registered)
          => (/\ pc'[c] = "done"
              /\ ret'[c].kind = "returned"
              /\ ret'[c].result.status = "failed"
              /\ calls'[c] = <<>>
              /\ UNCHANGED <<adapterVars, sessionVars>>)]_vars

C16_Witness ==
    \E c \in Callers :
        /\ pc[c] = "done"
        /\ plat[c] \notin Registered
        /\ ret[c].result.status = "failed"
        /\ calls[c] = <<>>
        /\ \E p \in Registered :
              consecutive_failures[p] > 0 /\ blocked_until[p] # None
        /\ live # {}

\* C10 (as claimed): when a post_to_platform call that has started to open
\* a session returns, cleanup has run once for it (never twice, and once
\* whenever the session was opened), and the adapter holds no open page,
\* context or browser, also when initialize_browser raised part-way.
C10_Original ==
    \A c \in Callers :
        (/\ pc[c] = "done"
         /\ "initialize_browser" \in Range(calls[c]))
        => (/\ Count(calls[c], "cleanup") <= 1
            /\ "validate_credentials" \in Range(calls[c])
                  => Count(calls[c], "cleanup") = 1
            /\ \A k \in {"page", "context", "browser"} :
                  ~HoldsOpen(k, plat[c]))


\* C22: over any sequence of calls, an adapter's failure state is reset
\* (consecutive_failures back to 0, blocked_until back to None) only by the
\* step of a call in which post_ad returned SUCCESS, and that call returns
\* SUCCESS; blocked_until gets a new value other than None only in the step
\* of a call in which post_ad returned RATE_LIMITED; no other step changes
\* blocked_until.
C22_OnlySuccessResetsOnlyRateLimitBlocks ==
    [][\A p \in Registered :
          LET by(s) == \E c \in Callers :
                          /\ plat[c] = p
                          /\ pc[c] = "post"
                          /\ pc'[c] = "cleanup"
                          /\ pend'[c].kind = "return"
                          /\ pend'[c].result.status = s
          IN  /\ (consecutive_failures[p] # 0 /\ consecutive_failures'[p] = 0)
                    => by("success")
              /\ (blocked_until'[p] # blocked_until[p])
                    => IF blocked_until'[p] = None THEN by("success")
                       ELSE by("rate_limited")]_vars

C22_Witness ==
    \E c \in Callers :
        /\ pc[c] = "done"
        /\ plat[c] \in Registered
        /\ ret[c].kind = "returned"
        /\ ret[c].result.status = "rate_limited"
        /\ "post_ad" \in Range(calls[c])
        /\ entry[c].bu = None
        /\ entry[c].cf > 0
        /\ blocked_until[plat[c]] # None
        /\ consecutive_failures[plat[c]] = entry[c].cf + 1

\* C23: a step of a call for platform P changes the failure state
\* (consecutive_failures, last_success_time, blocked_until) of no adapter
\* other than P's, also while a call for another platform is in progress.
C23_OtherAdaptersUntouched ==
    [][\A q \in Registered :
          (\/ consecutive_failures'[q] # consecutive_failures[q]
           \/ last_success_time'[q] # last_success_time[q]
           \/ blocked_until'[q] # blocked_until[q])
          => \E c \in Callers :
                /\ plat[c] = q
                /\ pc[c] \in InFlight
                /\ pc'[c] # pc[c]]_vars

C23_Witness ==
    /\ pc["a"] = "done"
    /\ plat["a"] = "facebook"
    /\ ret["a"].kind = "returned"
    /\ ret["a"].result.error_code # None
    /\ consecutive_failures["facebook"] = entry["a"].cf + 1
    /\ pc["b"] \in InFlight
    /\ plat["b"] = "craigslist"
    /\ consecutive_failures["craigslist"] = entry["b"].cf
    /\ blocked_until["craigslist"] = entry["b"].bu

\* C30: a call for an adapter whose blocked_until is set and has been
\* reached by the clock is not answered on the fast path: it goes on to
\* open a session on the adapter, and blocked_until is left as it is.
C30_BlockExpires ==
    [][\A c \in Callers :
          (/\ pc[c] \in {"idle", "ready"}
           /\ pc'[c] \in InFlight \cup {"done"}
           /\ plat'[c] \in Registered
           /\ blocked_until[plat'[c]] # None
           /\ now >= blocked_until[plat'[c]][1])
          => (/\ pc'[c] = "init"
              /\ ret'[c] = NoRet
              /\ UNCHANGED blocked_until)]_vars

C30_Witness ==
    \E c \in Callers :
        /\ pc[c] = "validate"
        /\ calls[c] = <<"initialize_browser">>
        /\ entry[c].bu # None
        /\ now >= entry[c].bu[1]
        /\ blocked_until[plat[c]] = entry[c].bu


\* the positions (from 0) of the options the scan reads (non-empty text)
\* whose text, trimmed and without regard to case, contains the location
SubstringMatches(options, location) ==
    {i - 1 : i \in {j \in DOMAIN options :
                        /\ options[j] # <<>>
                        /\ Contains(Strip(Lower(options[j])),
                                    Lower(location))}}

\* C27 (as claimed): when no option equals the location, the option
\* selected is the first (lowest position) option that contains the location
\* as a case-insensitive substring, and position 0 when no option contains
\* it; also for lists whose first containing option is at position 0.
C27_Original ==
    (/\ area.pc = "returned"
     /\ area.outcome = "selected"
     /\ ExactMatches(area.options, area.location) = {})
    => LET S == SubstringMatches(area.options, area.location)
       IN  area.index = Some(IF S = {} THEN 0 ELSE Least(S))


\* the images of the call whose retry loop has ended (none when the
\* download function was not called)
Downloaded ==
    IF upload.pc = "download" THEN 1..(upload.i - 1)
    ELSE IF upload.tried[1] > 0 THEN 1..upload.n
    ELSE {}

\* C24: each image URL is attempted at most max_retries (3) times and no
\* more after its first successful attempt; after a failed attempt that is
\* not the third the adapter sleeps 2^attempt seconds (1, then 2), and after
\* the third failure it does not sleep.
C24_AttemptsAndBackoff ==
    (upload.pc \notin {"idle", "visible"} /\ upload.n > 0) =>
        \A f \in 1..upload.n :
            LET failed == IF f \in upload.succeeded THEN upload.tried[f] - 1
                          ELSE upload.tried[f]
                waits == IF failed < max_retries THEN failed
                         ELSE max_retries - 1
            IN  /\ upload.tried[f] <= max_retries
                /\ upload.tried[f] <= 3
                /\ upload.slept[f] = [k \in 1..waits |-> 2 ^ (k - 1)]
                /\ Len(upload.slept[f]) <= 2
                /\ (f \in Downloaded /\ f \notin upload.succeeded)
                      => upload.tried[f] = max_retries
                /\ (upload.pc = "download" /\ f > upload.i)
                      => upload.tried[f] = 0

C24_Witness ==
    /\ upload.pc = "downloaded"
    /\ upload.n >= 2
    /\ upload.tried[1] = 3
    /\ 1 \notin upload.succeeded
    /\ upload.slept[1] = <<1, 2>>
    /\ upload.tried[2] = 2
    /\ 2 \in upload.succeeded
    /\ upload.slept[2] = <<1>>


\* the timeout the claim names: 60 s for Craigslist, the configured value
\* but never less than 60 s for Facebook
ClaimedTimeout ==
    IF poll.adapter = "craigslist" THEN 60
    ELSE IF poll.timeout < 60 THEN 60 ELSE poll.timeout

\* C25: the upload-completion poll always terminates.  It returns true in
\* the iteration in which completion is observed; when no query raises it
\* returns false only once the elapsed time exceeds the timeout (60 s for
\* Craigslist, the configured value and at least 60 s for Facebook); the
\* number of iterations is bounded by the timeout.
C25_PollTerminates ==
    /\ [](poll.pc # "idle" =>
            /\ poll.pc = "polling" => poll.last \in {"none", "pending"}
            /\ poll.ret = "true" <=> poll.last = "complete"
            /\ poll.last = "complete" => poll.elapsed <= ClaimedTimeout
            /\ poll.last = "timeout" =>
                  /\ poll.ret = "false"
                  /\ poll.elapsed > ClaimedTimeout
            /\ poll.polls <= ClaimedTimeout + 1
            /\ poll.polls < MaxPolls)
    /\ (poll.pc = "polling" ~> poll.pc = "returned")

C25_Witness ==
    /\ poll.pc = "returned"
    /\ poll.adapter = "facebook"
    /\ poll.timeout < 60
    /\ poll.last = "timeout"
    /\ poll.ret = "false"
    /\ poll.elapsed > 60
    /\ poll.polls > 30


\* C28 (as claimed): the temp image files of an attempt are private to it:
\* of two attempts that overlap in time, neither overwrites, hands to the
\* page (uploads) or deletes a temp file the other one wrote.
C28_Original == tmpdir.foreign = {}


\* the trimmed texts of the visible elements with a non-empty trimmed text,
\* among the elements the scan reads before a query raises, in the order of
\* discovery
FoundErrorTexts ==
    LET read == IF submit.raise_at = 0 THEN submit.elements
                ELSE SubSeq(submit.elements, 1, submit.raise_at - 1)
        shown == SelectSeq(read, LAMBDA e : e.visible /\ Strip(e.text) # <<>>)
    IN  [j \in DOMAIN shown |-> Strip(shown[j].text)]

\* t occurs in m as a run of consecutive characters
OccursIn(t, m) ==
    \E i \in 0..(Len(m) - Len(t)) : SubSeq(m, i + 1, i + Len(t)) = t

\* C26: when no success indicator is visible after the submit, the result
\* is FAILED; if the scan of the error selectors collected visible,
\* non-empty texts, the message is "Craigslist errors: " followed by all of
\* them, trimmed, in discovery order and joined by ", "; otherwise it is the
\* "Posting status unknown" text.  SUCCESS is returned only when a success
\* indicator was visible.
C26_AmbiguousCompletionFails ==
    submit.pc = "returned" =>
        /\ submit.result.status = "success" => submit.probe = "visible"
        /\ submit.probe = "none" =>
              /\ submit.result.status = "failed"
              /\ IF FoundErrorTexts # <<>>
                 THEN /\ submit.result.message = "Craigslist errors: "
                      /\ submit.result.detail = Join(FoundErrorTexts)
                      /\ \A j \in DOMAIN FoundErrorTexts :
                            OccursIn(FoundErrorTexts[j], submit.result.detail)
                 ELSE /\ submit.result.message =
                            "Posting status unknown - may require manual verification"
                      /\ submit.result.detail = <<>>

C26_Witness ==
    /\ submit.pc = "returned"
    /\ submit.probe = "none"
    /\ submit.raise_at = 0
    /\ Len(submit.elements) = 2
    /\ submit.elements[1].visible
    /\ submit.elements[1].text = <<"P">>
    /\ submit.elements[2] = [visible |-> TRUE, text |-> <<"p">>]
    /\ submit.result.status = "failed"
    /\ submit.result.detail = <<"P", ",", " ", "p">>


\* C21 (as claimed): the eBay API credentials of an attempt are used for
\* that attempt only: two runs that differ only in the credentials of
\* earlier attempts send the same requests in a later attempt, also when the
\* later attempt's additional_data is empty or None.
C21_Original ==
    (ebay.phase = "later" /\ ebay.pc # "idle") =>
        ebay.sent[1] = ebay.sent[2]


\* C29 (as claimed): the single-platform handler answers a RATE_LIMITED
\* result with 429 and the retry-after seconds, LOGIN_REQUIRED with 401,
\* CAPTCHA_REQUIRED with 423, any other result that is not SUCCESS with 400,
\* and gives 500 only for an unexpected internal error.
C29_Original ==
    (route.pc = "responded" /\ route.result # NoResult) =>
        LET s == route.result.status
            code == route.response.status_code
        IN  /\ s = "rate_limited" =>
                  /\ code = 429
                  /\ route.response.seconds = route.result.retry_after
            /\ s = "login_required" => code = 401
            /\ s = "captcha_required" => code = 423
            /\ s \in {"failed", "account_blocked"} => code = 400
            /\ code = 500 => route.raised.status_code = 0

====
